---- MODULE Spec2Model ----
(***************************************************************************)
(* Hybrid movie recommendation backend (films_recommendation).             *)
(*                                                                         *)
(*   backend/svd_model.py                    SVDModel: fit (SGD), predict  *)
(*   backend/routers/recommendations_router  TF-IDF similarity, popular    *)
(*                                           list, hybrid recommendations  *)
(*   backend/storage.py                      JSON stores of users, ratings *)
(*   backend/routers/auth_router.py          register                      *)
(*                                                                         *)
(* Six specifications share the variables:                                 *)
(*   Spec       GET /recommendations on a drawn catalog, popular list,     *)
(*              pickled model and ratings store                            *)
(*   SpecSim    _get_content_similar_movies on every small catalog         *)
(*   SpecPop    GET /recommendations/popular on every small catalog        *)
(*   SpecFit    SVDModel.fit step by step, predict called at any point     *)
(*   SpecStore  concurrent add_rating / add_ratings_batch calls            *)
(*   SpecUsers  concurrent POST /auth/register calls                       *)
(* In Spec, SpecSim and SpecPop the initial state draws the request        *)
(* (`call`) and the action serves it.                                      *)
(*                                                                         *)
(* Numbers.  Ratings, biases, factors, the learning rate and the           *)
(* regularisation are floats in the source; here they are fixed-point      *)
(* integers in thousandths (Scale): 4.5 is 4500, lr = 0.005 is 5.          *)
(* TF-IDF weights are fixed-point in hundredths, cosine similarities in    *)
(* thousandths.                                                            *)
(***************************************************************************)
EXTENDS Integers, Sequences, FiniteSets, TLC

VARIABLES
    movies_df,          \* recommendations_router.movies_df: the catalog rows
    popular_movie_ids,  \* recommendations_router._popular_movie_ids
    svd_model,          \* recommendations_router.svd_model (NoModel or a model)
    ratings,            \* storage: content of new_ratings.json
    call,               \* the request the service is serving (NoCall: none)
    resp,               \* what the most recent step returned or raised (NoResp: nothing)
    cand,               \* get_recommendations: similar_ids before the rated filter
    model,              \* train_model: the SVDModel object being trained
    train,              \* the (user_id, item_id, rating) triples given to fit
    fit_pc,             \* position of the fit call
    epoch,              \* fit: the epoch loop counter
    pending,            \* fit: indices of the shuffled epoch not yet visited
    total_error,        \* fit: total_error of the running epoch
    pc,                 \* storage: position of each request thread
    req,                \* storage: the rating list each thread is adding
    loaded,             \* storage: the local `ratings` / `users` list of each thread
    users_json,         \* storage: content of users.json
    registered          \* auth_router: the users that register has answered with

vars == <<movies_df, popular_movie_ids, svd_model, ratings, call, resp, cand,
          model, train, fit_pc, epoch, pending, total_error, pc, req, loaded, users_json,
          registered>>

recVars   == <<movies_df, popular_movie_ids, svd_model, ratings, call, cand>>
fitVars   == <<model, train, fit_pc, epoch, pending, total_error>>
storeVars == <<pc, req, loaded, users_json, registered>>

-----------------------------------------------------------------------------
(* Bounds of the model *)

MaxTrain    == 2    \* at most this many training triples
NEpochs     == 1    \* n_epochs given to SVDModel
NFactors    == 1    \* n_factors given to SVDModel
LRBig       == 500  \* a second, large learning rate (0.5) next to the default
MaxBatch    == 2    \* length of the rating list of an add_ratings_batch call
MaxCatalog  == 3    \* rows of the small catalogs
MaxTopN     == 3    \* top_n of a similarity query
MaxPopular  == 3    \* length of the popularity list next to the small catalogs
MaxLimit    == 3    \* limit of a popular query
MaxRatings  == 3    \* records in the ratings store of the recommendation service
PopLen      == 32   \* length of the long popularity list

(* Program constants *)

Scale       == 10 ^ 3  \* fixed-point unit: thousandths
LR          == 5    \* lr = 0.005
REG         == 20   \* reg = 0.02
Sigma       == 100  \* rng.normal(0, 0.1, ...)
ClipLo      == 500  \* np.clip(pred, 0.5, 5.0)
ClipHi      == 5000
NaN         == -1000000  \* np.mean of an empty array: nan (compares equal to no rating)

NoResp      == [op |-> "none"]
NoCall      == [op |-> "none"]
None        == <<>>          \* Python None for the array fields
Arr(v)      == <<v>>         \* a numpy array holding v (Arr(<<>>) is an empty array)

-----------------------------------------------------------------------------
(* Fixed-point helpers *)

\* x / d rounded to the nearest integer, halves away from zero
RoundDiv(x, d) ==
    IF x >= 0 THEN (2 * x + d) \div (2 * d)
              ELSE -((2 * (-x) + d) \div (2 * d))

\* product of two fixed-point numbers
Mul(a, b) == RoundDiv(a * b, Scale)

RECURSIVE SumSeq(_)
SumSeq(s) == IF s = <<>> THEN 0 ELSE s[1] + SumSeq(Tail(s))

\* np.dot of two factor rows
Dot(a, b) == SumSeq([k \in 1..Len(a) |-> Mul(a[k], b[k])])

Min(a, b) == IF a < b THEN a ELSE b
Max(a, b) == IF a > b THEN a ELSE b

\* s[:n] for n >= 0
Take(s, n) == SubSeq(s, 1, Min(n, Len(s)))

-----------------------------------------------------------------------------
(* svd_model.py: SVDModel *)

\* SVDModel.__init__
NewModel(lr) ==
    [ n_factors    |-> NFactors,
      n_epochs     |-> NEpochs,
      lr           |-> lr,
      reg          |-> REG,
      global_mean  |-> 0,
      user_bias    |-> None,
      item_bias    |-> None,
      user_factors |-> None,
      item_factors |-> None,
      user_map     |-> <<>>,
      item_map     |-> <<>> ]

\* {id: idx for idx, id in enumerate(np.unique(ids))}: rank in sorted order (1-based)
IndexMap(ids) == [x \in ids |-> Cardinality({y \in ids : y < x}) + 1]

\* np.mean(ratings); nan for an empty array
Mean(rs) == IF rs = <<>> THEN NaN ELSE RoundDiv(SumSeq(rs), Len(rs))

\* rng.normal(0, 0.1, (n, n_factors)) with the fixed seed 42: a fixed matrix of
\* small non-zero numbers of both signs
InitFactors(n, f) ==
    [r \in 1..n |-> [k \in 1..f |-> IF (r + k) % 2 = 0 THEN Sigma ELSE -Sigma]]

\* fit, lines 30-49: the id maps, the mean and the arrays
FitInit(m, t) ==
    LET users == {t[j].user_id : j \in 1..Len(t)}
        items == {t[j].item_id : j \in 1..Len(t)}
        nu    == Cardinality(users)
        ni    == Cardinality(items)
    IN [m EXCEPT
          !.user_map     = IndexMap(users),
          !.item_map     = IndexMap(items),
          !.global_mean  = Mean([j \in 1..Len(t) |-> t[j].rating]),
          !.user_bias    = Arr([r \in 1..nu |-> 0]),
          !.item_bias    = Arr([r \in 1..ni |-> 0]),
          !.user_factors = Arr(InitFactors(nu, m.n_factors)),
          !.item_factors = Arr(InitFactors(ni, m.n_factors))]

\* the linear predictor of fit (lines 61-66) and predict (lines 93-98)
Linear(m, u, i) ==
    m.global_mean + m.user_bias[1][u] + m.item_bias[1][i]
        + Dot(m.user_factors[1][u], m.item_factors[1][i])

\* (mutant of Sgd: user_factors[u] is not copied, the item update reads the new value)
SgdInPlace(m, u, i, r) ==
    LET err == r - Linear(m, u, i)
        m1  == [m EXCEPT !.user_bias = Arr([m.user_bias[1] EXCEPT ![u] =
                   m.user_bias[1][u] + Mul(m.lr, err - Mul(m.reg, m.user_bias[1][u]))])]
        m2  == [m1 EXCEPT !.item_bias = Arr([m1.item_bias[1] EXCEPT ![i] =
                   m1.item_bias[1][i] + Mul(m1.lr, err - Mul(m1.reg, m1.item_bias[1][i]))])]
        m3  == [m2 EXCEPT !.user_factors = Arr([m2.user_factors[1] EXCEPT ![u] =
                   [k \in 1..Len(m2.user_factors[1][u]) |->
                      m2.user_factors[1][u][k]
                        + Mul(m2.lr, Mul(err, m2.item_factors[1][i][k])
                                       - Mul(m2.reg, m2.user_factors[1][u][k]))]])]
        m4  == [m3 EXCEPT !.item_factors = Arr([m3.item_factors[1] EXCEPT ![i] =
                   [k \in 1..Len(m3.item_factors[1][i]) |->
                      m3.item_factors[1][i][k]
                        + Mul(m3.lr, Mul(err, m3.user_factors[1][u][k])
                                       - Mul(m3.reg, m3.item_factors[1][i][k]))]])]
    IN m4

\* fit, lines 57-79: one SGD step for the triple (u, i, r), u and i internal indices.
\* The arrays are updated in place, one statement after the other: m1..m4 are the
\* model after each statement, and every right-hand side reads the model as the
\* statements before it left it.
Sgd(m, u, i, r) ==
    LET err == r - Linear(m, u, i)
        m1  == [m EXCEPT !.user_bias = Arr([m.user_bias[1] EXCEPT ![u] =
                   m.user_bias[1][u] + Mul(m.lr, err - Mul(m.reg, m.user_bias[1][u]))])]
        m2  == [m1 EXCEPT !.item_bias = Arr([m1.item_bias[1] EXCEPT ![i] =
                   m1.item_bias[1][i] + Mul(m1.lr, err - Mul(m1.reg, m1.item_bias[1][i]))])]
        uf  == m2.user_factors[1][u]                \* uf = self.user_factors[u].copy()
        m3  == [m2 EXCEPT !.user_factors = Arr([m2.user_factors[1] EXCEPT ![u] =
                   [k \in 1..Len(uf) |->
                      m2.user_factors[1][u][k]
                        + Mul(m2.lr, Mul(err, m2.item_factors[1][i][k])
                                       - Mul(m2.reg, m2.user_factors[1][u][k]))]])]
        m4  == [m3 EXCEPT !.item_factors = Arr([m3.item_factors[1] EXCEPT ![i] =
                   [k \in 1..Len(uf) |->
                      m3.item_factors[1][i][k]
                        + Mul(m3.lr, Mul(err, uf[k])
                                       - Mul(m3.reg, m3.item_factors[1][i][k]))]])]
    IN m4

\* err ** 2 of the step
SqErr(m, u, i, r) == Mul(r - Linear(m, u, i), r - Linear(m, u, i))

\* (mutant of Clip: the prediction is returned unclipped)
ClipBroken(x) == x

\* np.clip(pred, 0.5, 5.0)
Clip(x) == Max(ClipLo, Min(ClipHi, x))

\* SVDModel.predict
Predict(m, user_id, item_id) ==
    IF user_id \notin DOMAIN m.user_map \/ item_id \notin DOMAIN m.item_map
    THEN m.global_mean
    ELSE Clip(Linear(m, m.user_map[user_id], m.item_map[item_id]))

-----------------------------------------------------------------------------
(* train_model.py / svd_model.py: the fit call, one action per step *)

TrainUsers   == {1, 2}
TrainItems   == {1, 2}
TrainRatings == {500, 5000}          \* ratings lie in [0.5, 5.0] (ratings_router.py:19)
UnknownId    == 9                    \* an id that is in no training triple
Triples      == [user_id : TrainUsers, item_id : TrainItems, rating : TrainRatings]

\* key of a triple, for the canonical order of the training rows
PairKey(x) == x.user_id * (Cardinality(TrainItems) + 1) + x.item_id

\* the training inputs: up to MaxTrain triples of distinct (user, item) pairs.  fit
\* visits them in shuffled order, so only one row order of each set is kept.
TrainSets ==
    UNION {{t \in [1..n -> Triples] :
              \A a, b \in 1..n : a < b => PairKey(t[a]) < PairKey(t[b])} : n \in 0..MaxTrain}

\* fit, lines 30-49; `for epoch in range(n_epochs)` starts with a shuffled index list
FitBegin ==
    /\ fit_pc = "not_called"
    /\ model' = FitInit(model, train)
    /\ fit_pc' = IF model.n_epochs = 0 THEN "returned" ELSE "epoch_loop"
    /\ epoch' = 0
    /\ pending' = 1..Len(train)
    /\ total_error' = 0
    /\ resp' = NoResp
    /\ UNCHANGED <<train, recVars, storeVars>>

\* fit, lines 56-79: the next index of the shuffled list (rng.shuffle: any order)
SgdStep ==
    /\ fit_pc = "epoch_loop"
    /\ \E idx \in pending :
         LET u == model.user_map[train[idx].user_id]
             i == model.item_map[train[idx].item_id]
             r == train[idx].rating
         IN /\ model' = Sgd(model, u, i, r)
            /\ total_error' = total_error + SqErr(model, u, i, r)
            /\ pending' = pending \ {idx}
    /\ resp' = NoResp
    /\ UNCHANGED <<train, fit_pc, epoch, recVars, storeVars>>

\* fit, lines 81-83: rmse = np.sqrt(total_error / len(ratings)) ends the epoch; with
\* no ratings total_error is the Python float 0.0 and the division raises
EpochEnd ==
    /\ fit_pc = "epoch_loop"
    /\ pending = {}
    /\ IF Len(train) = 0
       THEN /\ fit_pc' = "raised"
            /\ resp' = [op |-> "fit", error |-> "ZeroDivisionError"]
            /\ UNCHANGED <<epoch, pending, total_error>>
       ELSE /\ epoch' = epoch + 1
            /\ fit_pc' = IF epoch + 1 = model.n_epochs THEN "returned" ELSE "epoch_loop"
            /\ pending' = IF epoch + 1 = model.n_epochs THEN {} ELSE 1..Len(train)
            /\ total_error' = IF epoch + 1 = model.n_epochs THEN total_error ELSE 0
            /\ resp' = NoResp
    /\ UNCHANGED <<model, train, recVars, storeVars>>

\* a caller invokes model.predict(user_id, item_id); predict reads no state of the
\* fit call, so it answers at every position of it
PredictCall ==
    /\ \E u \in TrainUsers \cup {UnknownId}, i \in TrainItems \cup {UnknownId} :
         resp' = [op |-> "predict", user_id |-> u, item_id |-> i,
                  value |-> Predict(model, u, i), during |-> fit_pc]
    /\ UNCHANGED <<fitVars, recVars, storeVars>>

\* the whole fit call with the index list visited in row order
RECURSIVE SgdPass(_, _, _)
SgdPass(m, t, j) ==
    IF j > Len(t) THEN m
    ELSE SgdPass(Sgd(m, m.user_map[t[j].user_id], m.item_map[t[j].item_id], t[j].rating),
                 t, j + 1)

RECURSIVE Epochs(_, _, _)
Epochs(m, t, e) == IF e = 0 THEN m ELSE Epochs(SgdPass(m, t, 1), t, e - 1)

FitRun(m, t) == Epochs(FitInit(m, t), t, m.n_epochs)

NoModel == [n_factors |-> 0]     \* svd_model = None: no pickled model was found

InitFit ==
    /\ train \in TrainSets
    /\ model \in {NewModel(lr) : lr \in {LR, LRBig}}
    /\ fit_pc = "not_called"
    /\ epoch = 0
    /\ pending = {}
    /\ total_error = 0
    /\ resp = NoResp
    /\ movies_df = <<>>
    /\ popular_movie_ids = <<>>
    /\ svd_model = NoModel
    /\ ratings = <<>>
    /\ call = NoCall
    /\ cand = <<>>
    /\ pc = <<>>
    /\ req = <<>>
    /\ loaded = <<>>
    /\ users_json = <<>>
    /\ registered = {}

NextFit == FitBegin \/ SgdStep \/ EpochEnd \/ PredictCall

SpecFit == InitFit /\ [][NextFit]_vars

-----------------------------------------------------------------------------
(* recommendations_router.py: catalog, TF-IDF matrix and genre similarity *)

TokenList == <<"action", "comedy", "drama", "thriller">>

\* ln(k) in hundredths, k = 1..24 (the idf of TfidfVectorizer uses the natural log)
Ln100 == <<0, 69, 110, 139, 161, 179, 195, 208, 220, 230, 240, 248,
           256, 264, 271, 277, 283, 289, 294, 300, 304, 309, 314, 318>>

RECURSIVE IsqrtIn(_, _, _)
IsqrtIn(x, lo, hi) ==                 \* the largest r in lo..hi with r * r <= x
    IF lo >= hi THEN lo
    ELSE LET mid == (lo + hi + 1) \div 2
         IN IF mid * mid <= x THEN IsqrtIn(x, mid, hi) ELSE IsqrtIn(x, lo, mid - 1)

Isqrt(x) == IsqrtIn(x, 0, Scale)

\* a catalog row: movieId and the tokens TfidfVectorizer finds in genres_clean
\* (the genres split at '|'; a movie has each genre once, so every tf is 1)
Row(id, g) == [movieId |-> id, genres |-> g]

\* document frequency of a token and its smoothed idf: ln((1 + n) / (1 + df)) + 1
Df(tok) == Cardinality({r \in 1..Len(movies_df) : tok \in movies_df[r].genres})
Idf(tok) == Ln100[1 + Len(movies_df)] - Ln100[1 + Df(tok)] + 100

\* _tfidf_matrix before the l2 normalisation of its rows: one weight per row and token
TfidfMatrix ==
    LET idf == [k \in 1..Len(TokenList) |-> Idf(TokenList[k])]
    IN [r \in 1..Len(movies_df) |->
          [k \in 1..Len(TokenList) |->
             IF TokenList[k] \in movies_df[r].genres THEN idf[k] ELSE 0]]

\* cosine_similarity(_tfidf_matrix[idx], _tfidf_matrix).flatten(), in thousandths; a
\* row without tokens is the zero vector and has similarity 0 to every row, itself
\* included
SimScores(idx) ==
    LET X    == TfidfMatrix
        norm == [r \in 1..Len(X) |-> Isqrt(SumSeq([k \in 1..Len(X[r]) |-> X[r][k] * X[r][k]]))]
    IN [r \in 1..Len(X) |->
          IF norm[idx] = 0 \/ norm[r] = 0 THEN 0
          ELSE (Scale * SumSeq([k \in 1..Len(X[r]) |-> X[idx][k] * X[r][k]]))
                  \div (norm[idx] * norm[r])]

\* movies_df[movies_df["movieId"] == movie_id].index: the matching row numbers
IdxMatches(movie_id) == {r \in 1..Len(movies_df) : movies_df[r].movieId = movie_id}

InCatalog(movie_id) == IdxMatches(movie_id) /= {}

\* idx_matches[0]
FirstIdx(movie_id) == CHOOSE r \in IdxMatches(movie_id) : \A q \in IdxMatches(movie_id) : r <= q

\* sim_scores.argsort(): numpy's default sort is not stable, so rows of equal score
\* come out in any order: the set of all index orders ascending by score
RECURSIVE AscendingOrders(_, _)
AscendingOrders(rows, sim_scores) ==
    IF rows = {} THEN {<<>>}
    ELSE LET least == {r \in rows : \A q \in rows : sim_scores[r] <= sim_scores[q]}
         IN UNION {{<<r>> \o rest : rest \in AscendingOrders(rows \ {r}, sim_scores)} :
                     r \in least}

ArgsortOutcomes(movie_id) ==
    IF InCatalog(movie_id)
    THEN UNION {AscendingOrders(1..Len(movies_df), sim_scores) :
                  sim_scores \in {SimScores(FirstIdx(movie_id))}}
    ELSE {<<>>}

Reverse(s) == [k \in 1..Len(s) |-> s[Len(s) + 1 - k]]

\* _get_content_similar_movies(movie_id, top_n), `order` being what argsort returned:
\* order[::-1][1 : top_n + 1] mapped to movieId
GetContentSimilarMovies(movie_id, top_n, order) ==
    IF ~InCatalog(movie_id) THEN <<>>
    ELSE LET similar_indices == SubSeq(Reverse(order), 2, Min(top_n + 1, Len(order)))
         IN [k \in 1..Len(similar_indices) |-> movies_df[similar_indices[k]].movieId]

-----------------------------------------------------------------------------
(* recommendations_router.py: the endpoints *)

TopN          == 30      \* top_n=30, _popular_movie_ids[:30]
TopK          == 10      \* predictions[:10]
LikeThreshold == 4000    \* r["rating"] >= 4.0
FallbackScore == 3000    \* predicted_rating = 3.0 when there is no model

\* s[:n] of Python for any integer n
PySlicePrefix(s, n) ==
    IF n >= 0 THEN Take(s, n) ELSE SubSeq(s, 1, Max(0, Len(s) + n))

\* (mutant of GetPopularMovies: ids without a catalog row are kept)
GetPopularMoviesUnfiltered(limit) == PySlicePrefix(popular_movie_ids, limit)

\* get_popular_movies(limit): the rows of _popular_movie_ids[:limit] found in movies_df
GetPopularMovies(limit) ==
    LET selected_ids == PySlicePrefix(popular_movie_ids, limit)
    IN SelectSeq(selected_ids, InCatalog)

\* (mutant of GetRatingsForUser: the user filter is missing)
GetRatingsOfAllUsers(user_id) == ratings

\* storage.get_ratings_for_user
GetRatingsForUser(user_id) == SelectSeq(ratings, LAMBDA r : r.user_id = user_id)

\* sorted(..., reverse=True) and list.sort(reverse=True) are stable: the row numbers
\* of `keys` in descending key order, equal keys in their original order (insertion
\* of each row after the rows whose key is not smaller)
\* (mutant of InsertDesc: equal keys end up in reverse order)
RECURSIVE InsertDescUnstable(_, _, _)
InsertDescUnstable(sorted, i, keys) ==
    IF sorted = <<>> THEN <<i>>
    ELSE IF keys[Head(sorted)] > keys[i]
         THEN <<Head(sorted)>> \o InsertDescUnstable(Tail(sorted), i, keys)
         ELSE <<i>> \o sorted

RECURSIVE InsertDesc(_, _, _)
InsertDesc(sorted, i, keys) ==
    IF sorted = <<>> THEN <<i>>
    ELSE IF keys[Head(sorted)] >= keys[i]
         THEN <<Head(sorted)>> \o InsertDesc(Tail(sorted), i, keys)
         ELSE <<i>> \o sorted

RECURSIVE StableOrderDesc(_, _)
StableOrderDesc(keys, n) ==
    IF n = 0 THEN <<>> ELSE InsertDesc(StableOrderDesc(keys, n - 1), n, keys)

SortedDesc(s, keys) ==
    LET order == StableOrderDesc(keys, Len(s)) IN [k \in 1..Len(s) |-> s[order[k]]]

\* get_recommendations, lines 158-161: the list whose last element is the seed
Liked(user_ratings) ==
    LET liked == SelectSeq(user_ratings, LAMBDA r : r.rating >= LikeThreshold)
    IN IF liked = <<>>
       THEN SortedDesc(user_ratings, [k \in 1..Len(user_ratings) |-> user_ratings[k].rating])
       ELSE liked

\* (mutant of SeedMovieId: liked[0] instead of liked[-1])
SeedMovieIdFirst(user_ratings) == Liked(user_ratings)[1].movie_id

\* line 163: seed_movie_id = liked[-1]["movie_id"]
SeedMovieId(user_ratings) == Liked(user_ratings)[Len(Liked(user_ratings))].movie_id

\* (mutant of SimilarIds: the popular fallback is missing)
SimilarIdsNoFallback(seed_movie_id, order) ==
    GetContentSimilarMovies(seed_movie_id, TopN, order)

\* lines 166-170: similar_ids, with the popular fallback
SimilarIds(seed_movie_id, order) ==
    LET similar_ids == GetContentSimilarMovies(seed_movie_id, TopN, order)
    IN IF similar_ids = <<>> THEN PySlicePrefix(popular_movie_ids, TopN) ELSE similar_ids

\* (mutant of Unrated: rated movies are not removed)
UnratedBroken(similar_ids, user_ratings) == similar_ids

\* lines 173-174: drop the movies the user has rated
Unrated(similar_ids, user_ratings) ==
    LET rated_ids == {user_ratings[k].movie_id : k \in 1..Len(user_ratings)}
    IN SelectSeq(similar_ids, LAMBDA mid : mid \notin rated_ids)

\* round(predicted_rating, 2)
Round2(x) == RoundDiv(x, 10) * 10

\* _predict_svd_ratings: movies without a catalog row are skipped
PredictSvdRatings(user_id, movie_ids) ==
    LET known == SelectSeq(movie_ids, InCatalog)
    IN [k \in 1..Len(known) |->
          [movieId |-> known[k],
           predicted_rating |->
              Round2(IF svd_model /= NoModel THEN Predict(svd_model, user_id, known[k])
                                             ELSE FallbackScore)]]

\* (mutant of TopTen: the predictions are not sorted)
TopTenUnsorted(predictions) == Take(predictions, TopK)

\* lines 180-181: sort by predicted rating, keep the first 10
TopTen(predictions) ==
    Take(SortedDesc(predictions,
                    [k \in 1..Len(predictions) |-> predictions[k].predicted_rating]), TopK)

\* GET /recommendations for the authenticated user: serves the request `call`.
\* (A local of the handler is bound with \E over a one-element set.)
GetRecommendations ==
    /\ call.op = "recommendations"
    /\ resp = NoResp
    /\ \E user_ratings \in {GetRatingsForUser(call.user_id)} :
         IF user_ratings = <<>>
         THEN /\ resp' = [op |-> "recommendations", status |-> 400]
              /\ cand' = <<>>
         ELSE \E seed_movie_id \in {SeedMovieId(user_ratings)} :
              \E order \in ArgsortOutcomes(seed_movie_id) :
              \E similar_ids \in {SimilarIds(seed_movie_id, order)} :
              \E predictions \in {PredictSvdRatings(call.user_id,
                                                    Unrated(similar_ids, user_ratings))} :
                 /\ cand' = similar_ids
                 /\ resp' = [op |-> "recommendations", status |-> 200,
                             user_id |-> call.user_id,
                             seed_movie_id |-> seed_movie_id,
                             recommendations |-> TopTen(predictions)]
    /\ UNCHANGED <<movies_df, popular_movie_ids, svd_model, ratings, call, fitVars, storeVars>>

-----------------------------------------------------------------------------
(* The catalog queries on small catalogs *)

GenreSets == {{}, {"action"}, {"comedy"}, {"action", "comedy"}}

\* every catalog of up to MaxCatalog rows over GenreSets (rows of identical genre
\* text and rows without genres included), the movie ids 1..n in rising or in
\* falling row order
SmallCatalogs ==
    UNION {{[r \in 1..n |-> Row(IF up THEN r ELSE n + 1 - r, g[r])] :
              g \in [1..n -> GenreSets], up \in BOOLEAN} : n \in 0..MaxCatalog}

\* the cached popularity list: distinct movie ids, some of them possibly not in
\* the catalog
PopIds == {1, 2, 3, 4}
PopularLists ==
    UNION {{p \in [1..n -> PopIds] : \A a, b \in 1..n : a /= b => p[a] /= p[b]} :
             n \in 0..MaxPopular}

\* the call _get_content_similar_movies(call.movie_id, call.top_n)
SimilarQuery ==
    /\ call.op = "similar"
    /\ resp = NoResp
    /\ \E order \in ArgsortOutcomes(call.movie_id) :
         resp' = [op |-> "similar",
                  result |-> GetContentSimilarMovies(call.movie_id, call.top_n, order)]
    /\ UNCHANGED <<recVars, fitVars, storeVars>>

\* GET /recommendations/popular?limit=call.limit
PopularQuery ==
    /\ call.op = "popular"
    /\ resp = NoResp
    /\ resp' = [op |-> "popular", result |-> GetPopularMovies(call.limit)]
    /\ UNCHANGED <<recVars, fitVars, storeVars>>

SimilarCalls ==
    {[op |-> "similar", movie_id |-> m, top_n |-> n] :
        m \in 1..(MaxCatalog + 1), n \in 0..MaxTopN}

PopularCalls == {[op |-> "popular", limit |-> n] : n \in (-1)..MaxLimit}

IdleFit ==
    /\ train = <<>>
    /\ model = NewModel(LR)
    /\ fit_pc = "not_called"
    /\ epoch = 0
    /\ pending = {}
    /\ total_error = 0

IdleStore ==
    /\ pc = <<>>
    /\ req = <<>>
    /\ loaded = <<>>
    /\ users_json = <<>>
    /\ registered = {}

InitSim ==
    /\ movies_df \in SmallCatalogs
    /\ call \in SimilarCalls
    /\ popular_movie_ids = <<>>
    /\ svd_model = NoModel
    /\ ratings = <<>>
    /\ cand = <<>>
    /\ resp = NoResp
    /\ IdleFit
    /\ IdleStore

SpecSim == InitSim /\ [][SimilarQuery]_vars

InitPop ==
    /\ movies_df \in SmallCatalogs
    /\ call \in PopularCalls
    /\ popular_movie_ids \in PopularLists
    /\ svd_model = NoModel
    /\ ratings = <<>>
    /\ cand = <<>>
    /\ resp = NoResp
    /\ IdleFit
    /\ IdleStore

SpecPop == InitPop /\ [][PopularQuery]_vars

-----------------------------------------------------------------------------
(* The recommendation service *)

\* the genres of a catalog row from a 4-bit code, one bit per token
GenresOfCode(c) == {TokenList[k] : k \in {j \in 1..4 : (c \div (2 ^ (j - 1))) % 2 = 1}}

\* a catalog large enough for more than TopK candidates: thirteen movies of
\* different genre sets
BigCodes == <<7, 14, 8, 9, 1, 11, 12, 4, 13, 3, 10, 15, 5>>
BigCatalog == [r \in 1..Len(BigCodes) |-> Row(r, GenresOfCode(BigCodes[r]))]

\* catalog of the scenario: 1 "Action Comedy", 2 "Action", 3 "Comedy", 4 "Drama"
ScenarioCatalog ==
    <<Row(1, {"action", "comedy"}), Row(2, {"action"}), Row(3, {"comedy"}),
      Row(4, {"drama"})>>

RecCatalogs ==
    { <<>>,                                                 \* movies.csv not found
      <<Row(1, {"action"})>>,
      <<Row(2, {"action"}), Row(1, {"action"}), Row(4, {})>>,
      ScenarioCatalog,
      BigCatalog }

\* a popularity list longer than TopN, ids beyond the catalog included
LongPopular == [k \in 1..PopLen |-> PopLen + 1 - k]

RecPopular == {<<>>, <<3, 1, 2, 4>>, LongPopular}

\* the pickled model: none, or the result of train_model on some ratings
ScenarioTrain ==
    <<[user_id |-> 1, item_id |-> 1, rating |-> 5000],
      [user_id |-> 1, item_id |-> 2, rating |-> 3000],
      [user_id |-> 2, item_id |-> 1, rating |-> 4000]>>

WideTrain ==
    <<[user_id |-> 1, item_id |-> 1, rating |-> 4000]>>
      \o [k \in 1..Len(BigCodes) |->
            [user_id |-> 2, item_id |-> k, rating |-> 500 + 500 * ((3 * k) % 10)]]

RecModels == {NoModel} \cup {FitRun(NewModel(LR), t) : t \in {ScenarioTrain, WideTrain}}

\* new_ratings.json: up to MaxRatings records, in the order they were appended
StoreRecs ==
    [user_id : {1}, movie_id : {1, 2}, rating : {3000, 3500, 4000}]
      \cup {[user_id |-> 2, movie_id |-> 1, rating |-> 4500]}

RecStores == UNION {[1..n -> StoreRecs] : n \in 0..MaxRatings}

RecCalls == {[op |-> "recommendations", user_id |-> u] : u \in {1, 2}}

Init ==
    /\ movies_df \in RecCatalogs
    /\ call \in RecCalls
    /\ popular_movie_ids \in RecPopular
    /\ svd_model \in RecModels
    /\ ratings \in RecStores
    /\ cand = <<>>
    /\ resp = NoResp
    /\ IdleFit
    /\ IdleStore

Next == GetRecommendations

Spec == Init /\ [][Next]_vars

-----------------------------------------------------------------------------
(* storage.py: the ratings store under concurrent requests *)

Threads == {1, 2}                    \* request threads; thread t serves user t

\* the rating of one request body (ratings_router.SingleRating)
StoreMovies  == {1, 2}
StoreRatings == {3000, 4500}
Singles == [movie_id : StoreMovies, rating : StoreRatings]

\* add_rating gets one rating, add_ratings_batch a list of them
Requests ==
    {[call |-> "add_rating", items |-> <<x>>] : x \in Singles}
      \cup {[call |-> "add_ratings_batch", items |-> b] :
              b \in UNION {[1..n -> Singles] : n \in {0, MaxBatch}}}

\* the store record of a submitted rating (the timestamp is left out)
Rec(user_id, x) == [user_id |-> user_id, movie_id |-> x.movie_id, rating |-> x.rating]

\* the records a request of thread t appends, lines 98-103 and 113-119
NewRecs(t) == [k \in 1..Len(req[t].items) |-> Rec(t, req[t].items[k])]

\* read_ratings, lines 77-82: json.load under _lock; the lock is released on return
ReadRatings(t) ==
    /\ pc[t] = "read_ratings"
    /\ loaded' = [loaded EXCEPT ![t] = ratings]
    /\ pc' = [pc EXCEPT ![t] = "write_ratings"]
    /\ resp' = NoResp
    /\ UNCHANGED <<ratings, req, users_json, registered, movies_df, popular_movie_ids,
                   svd_model, call, cand, fitVars>>

\* the appends to the local list, then write_ratings, lines 85-90: json.dump of the
\* local list under _lock
WriteRatings(t) ==
    /\ pc[t] = "write_ratings"
    /\ ratings' = loaded[t] \o NewRecs(t)
    /\ loaded' = [loaded EXCEPT ![t] = loaded[t] \o NewRecs(t)]
    /\ pc' = [pc EXCEPT ![t] = "done"]
    /\ resp' = [op |-> req[t].call, thread |-> t]
    /\ UNCHANGED <<req, users_json, registered, movies_df, popular_movie_ids, svd_model, call,
                   cand, fitVars>>

InitStore ==
    /\ ratings \in {<<>>, <<[user_id |-> 3, movie_id |-> 1, rating |-> 4000]>>}
    /\ req \in [Threads -> Requests]
    /\ pc = [t \in Threads |-> "read_ratings"]
    /\ loaded = [t \in Threads |-> <<>>]
    /\ users_json = <<>>
    /\ registered = {}
    /\ resp = NoResp
    /\ movies_df = <<>>
    /\ popular_movie_ids = <<>>
    /\ svd_model = NoModel
    /\ call = NoCall
    /\ cand = <<>>
    /\ train = <<>>
    /\ model = NewModel(LR)
    /\ fit_pc = "not_called"
    /\ epoch = 0
    /\ pending = {}
    /\ total_error = 0

NextStore == \E t \in Threads : ReadRatings(t) \/ WriteRatings(t)

SpecStore == InitStore /\ [][NextStore]_vars

Range(s) == {s[k] : k \in 1..Len(s)}

-----------------------------------------------------------------------------
(* auth_router.py, storage.py: concurrent register requests on the users store *)

MaxRegs == 3                         \* requests that one thread serves, one after the other

Usernames == {"a", "b", "c"}

\* a user record of users.json (the password hash is left out)
User(id, username) == [id |-> id, username |-> username]

\* get_next_user_id, lines 56-59, on the list it has just read
NextUserId(stored) ==
    IF stored = <<>> THEN 1
    ELSE (CHOOSE m \in {stored[k].id : k \in 1..Len(stored)} :
             \A k \in 1..Len(stored) : stored[k].id <= m) + 1

\* the request has ended: the thread takes the next one of its queue
EndRequest(t) ==
    /\ req' = [req EXCEPT ![t] = Tail(req[t])]
    /\ pc' = [pc EXCEPT ![t] = IF Tail(req[t]) = <<>> THEN "done"
                                                      ELSE "get_user_by_username"]

\* register, line 41: get_user_by_username reads the users (read_users under _lock)
\* and a taken username ends the request with HTTP 400
GetUserByUsername(t) ==
    /\ pc[t] = "get_user_by_username"
    /\ IF \E k \in 1..Len(users_json) : users_json[k].username = Head(req[t]).username
       THEN /\ EndRequest(t)
            /\ resp' = [op |-> "register", thread |-> t, status |-> 400]
       ELSE /\ pc' = [pc EXCEPT ![t] = "add_user"]
            /\ resp' = NoResp
            /\ UNCHANGED req
    /\ UNCHANGED <<loaded, users_json, registered, ratings, movies_df, popular_movie_ids,
                   svd_model, call, cand, fitVars>>

\* add_user, line 64: users = read_users()
AddUser(t) ==
    /\ pc[t] = "add_user"
    /\ loaded' = [loaded EXCEPT ![t] = users_json]
    /\ pc' = [pc EXCEPT ![t] = "get_next_user_id"]
    /\ resp' = NoResp
    /\ UNCHANGED <<req, users_json, registered, ratings, movies_df, popular_movie_ids,
                   svd_model, call, cand, fitVars>>

\* add_user, lines 65-70: get_next_user_id() reads the users a second time, then the
\* new user is appended to the local list
GetNextUserId(t) ==
    /\ pc[t] = "get_next_user_id"
    /\ loaded' = [loaded EXCEPT ![t] =
                     Append(loaded[t], User(NextUserId(users_json), Head(req[t]).username))]
    /\ pc' = [pc EXCEPT ![t] = "write_users"]
    /\ resp' = NoResp
    /\ UNCHANGED <<req, users_json, registered, ratings, movies_df, popular_movie_ids,
                   svd_model, call, cand, fitVars>>

\* the user that the request of thread t has created (new_user of add_user)
NewUser(t) == loaded[t][Len(loaded[t])]

\* add_user, lines 71-72: write_users(users) under _lock; register answers with the
\* new user's id and name
WriteUsers(t) ==
    /\ pc[t] = "write_users"
    /\ users_json' = loaded[t]
    /\ registered' = registered \cup {NewUser(t)}
    /\ EndRequest(t)
    /\ resp' = [op |-> "register", thread |-> t, status |-> 200,
                user_id |-> NewUser(t).id, username |-> NewUser(t).username]
    /\ UNCHANGED <<loaded, ratings, movies_df, popular_movie_ids, svd_model, call, cand,
                   fitVars>>

\* users.json as earlier registrations left it
UserStores == {<<>>, <<User(1, "c")>>}

RegisterRequests == {[call |-> "register", username |-> n] : n \in Usernames}

\* thread 1 serves one request, thread 2 up to MaxRegs requests in a row
RegisterQueues ==
    {q \in [Threads -> UNION {[1..n -> RegisterRequests] : n \in 1..MaxRegs}] : Len(q[1]) = 1}

InitUsers ==
    /\ users_json \in UserStores
    /\ registered = {}
    /\ req \in RegisterQueues
    /\ pc = [t \in Threads |-> "get_user_by_username"]
    /\ loaded = [t \in Threads |-> <<>>]
    /\ resp = NoResp
    /\ ratings = <<>>
    /\ movies_df = <<>>
    /\ popular_movie_ids = <<>>
    /\ svd_model = NoModel
    /\ call = NoCall
    /\ cand = <<>>
    /\ IdleFit

NextUsers ==
    \E t \in Threads :
       GetUserByUsername(t) \/ AddUser(t) \/ GetNextUserId(t) \/ WriteUsers(t)

SpecUsers == InitUsers /\ [][NextUsers]_vars

-----------------------------------------------------------------------------
(* Claims about the recommendation service *)

\* rows of the ratings store that belong to the user of the request being served
HistoryIdx == {k \in 1..Len(ratings) : ratings[k].user_id = call.user_id}
LikedIdx   == {k \in HistoryIdx : ratings[k].rating >= 4000}
MaxOf(S)   == CHOOSE x \in S : \A y \in S : y <= x
Served     == call.op = "recommendations" /\ resp.op = "recommendations"

\* C1: the list returned by get_recommendations holds no movie of the user's rating
\* history and at most 10 movies.
C1_UnseenAtMostTen ==
    (Served /\ resp.status = 200)
        => /\ Len(resp.recommendations) <= 10
           /\ \A j \in 1..Len(resp.recommendations) :
                 \A k \in HistoryIdx : resp.recommendations[j].movieId /= ratings[k].movie_id

\* C1 witness: a rated movie was among the similar movies, more than 10 unrated
\* candidates were left, and 10 came back.
C1_Witness ==
    /\ Served
    /\ resp.status = 200
    /\ \E j \in 1..Len(cand) : \E k \in HistoryIdx : cand[j] = ratings[k].movie_id
    /\ Cardinality({j \in 1..Len(cand) :
                      \A k \in HistoryIdx : cand[j] /= ratings[k].movie_id}) > 10
    /\ Len(resp.recommendations) = 10

\* C2: with an empty rating history the request ends in the HTTP 400 cold-start
\* error and returns no recommendation list, neither empty nor from the popular list.
C2_ColdStartIsError ==
    (Served /\ HistoryIdx = {})
        => (resp.status = 400 /\ "recommendations" \notin DOMAIN resp)

\* C2 witness: the 400 was raised although other users have ratings and both the
\* catalog and the popular list could have filled a fallback list.
C2_Witness ==
    /\ Served
    /\ HistoryIdx = {}
    /\ resp.status = 400
    /\ ratings /= <<>>
    /\ \E j \in 1..Len(popular_movie_ids) : InCatalog(popular_movie_ids[j])

\* C9: when the history holds an event rated >= 4.0, the seed is the movie of the
\* last such event in the order of the history.
C9_SeedIsLastLiked ==
    (Served /\ resp.status = 200 /\ LikedIdx /= {})
        => resp.seed_movie_id = ratings[MaxOf(LikedIdx)].movie_id

\* C9 witness: two liked events of different movies, the later one followed by an
\* event below 4.0.
C9_Witness ==
    /\ Served
    /\ resp.status = 200
    /\ \E a, b \in LikedIdx : a < b /\ ratings[a].movie_id /= ratings[b].movie_id
    /\ MaxOf(LikedIdx) < MaxOf(HistoryIdx)
    /\ resp.seed_movie_id = ratings[MaxOf(LikedIdx)].movie_id

\* the events of the history with the minimum rating value
MinIdx == {k \in HistoryIdx : \A j \in HistoryIdx : ratings[k].rating <= ratings[j].rating}

-----------------------------------------------------------------------------
(* Claims about the catalog queries *)

\* C4: _get_content_similar_movies(X, n) never includes X and never returns more
\* than n movies.
C4_SimilarExcludesSelf ==
    (call.op = "similar" /\ resp.op = "similar")
        => /\ Len(resp.result) <= call.top_n
           /\ \A j \in 1..Len(resp.result) : resp.result[j] /= call.movie_id

\* C8 as claimed: get_popular_movies(limit=n) returns exactly the first
\* min(n, cache length) entries of the cached list.
C8_PopularIsPrefix ==
    (call.op = "popular" /\ resp.op = "popular")
        => resp.result = SubSeq(popular_movie_ids, 1,
                                Min(call.limit, Len(popular_movie_ids)))

\* the length of the Python slice cache[:n]
SliceLen == IF call.limit >= 0 THEN Min(call.limit, Len(popular_movie_ids))
                               ELSE Max(0, Len(popular_movie_ids) + call.limit)

\* positions of that slice whose movie has a catalog row
KeptPos == {k \in 1..SliceLen :
               \E r \in 1..Len(movies_df) : movies_df[r].movieId = popular_movie_ids[k]}

\* C8 amended: get_popular_movies(limit=n) returns, in cached order, those of the
\* first min(n, cache length) cached entries that have a row in the catalog (for
\* n < 0 the slice cache[:n], which ends |n| entries before the end).
C8_PopularIsCatalogPrefix ==
    (call.op = "popular" /\ resp.op = "popular")
        => /\ Len(resp.result) = Cardinality(KeptPos)
           /\ \A k \in KeptPos :
                 resp.result[Cardinality({j \in KeptPos : j <= k})] = popular_movie_ids[k]

\* C8 witness: a limit shorter than the cache, and a cached entry inside the prefix
\* without a catalog row, followed by one with a row.
C8_Witness ==
    /\ call.op = "popular"
    /\ resp.op = "popular"
    /\ 0 < call.limit
    /\ call.limit < Len(popular_movie_ids)
    /\ \E a \in 1..SliceLen : a \notin KeptPos /\ \E b \in KeptPos : a < b
    /\ resp.result /= <<>>

-----------------------------------------------------------------------------
(* Claims about the ratings store *)

\* C3: once all concurrent add_rating / add_ratings_batch calls have completed,
\* the ratings store contains every rating submitted by every call (no lost update).
C3_NoLostUpdate ==
    (\A t \in Threads : pc[t] = "done")
        => \A t \in Threads : Range(NewRecs(t)) \subseteq Range(ratings)

-----------------------------------------------------------------------------
(* Claims about the latent factor model *)

\* C5: a predict call on a model whose fit returned (trained on ratings within
\* [0.5, 5.0]) returns a value within [0.5, 5.0], for known and unknown ids.
C5_PredictInRange ==
    (resp.op = "predict" /\ resp.during = "returned")
        => (ClipLo <= resp.value /\ resp.value <= ClipHi)

\* C5 witness: predict answered a known pair whose linear predictor lies above 5.0.
C5_Witness ==
    /\ resp.op = "predict"
    /\ resp.during = "returned"
    /\ resp.user_id \in DOMAIN model.user_map
    /\ resp.item_id \in DOMAIN model.item_map
    /\ Linear(model, model.user_map[resp.user_id], model.item_map[resp.item_id]) > ClipHi
    /\ resp.value = ClipHi

\* C6: predict returns a prediction value only when the fit call has completed
\* (never from Uninitialized, never while Training).
C6_PredictOnlyWhenTrained ==
    resp.op = "predict" => resp.during = "returned"

\* C7: fit on an empty set of triples is rejected before the model leaves
\* Uninitialized: the call never enters the training loop and the model's fields
\* keep their initial values.
C7_EmptyFitRejected ==
    train = <<>> => (fit_pc \in {"not_called", "raised"} /\ model = NewModel(model.lr))

-----------------------------------------------------------------------------
(* Claims about candidate generation and ranking *)

\* what _get_content_similar_movies(seed, 30) can return for the seed of the served
\* request (one list per outcome of argsort)
TopSimilarOfSeed ==
    {GetContentSimilarMovies(resp.seed_movie_id, TopN, order) :
       order \in ArgsortOutcomes(resp.seed_movie_id)}

\* C11: when the similar-movies list of the seed is empty, the candidate list before
\* the rated filter is exactly the first 30 entries of the popular list; otherwise it
\* is the similar-movies list and the popular list plays no part.
C11_CandidateFallback ==
    (Served /\ resp.status = 200)
        => IF TopSimilarOfSeed = {<<>>}
           THEN cand = SubSeq(popular_movie_ids, 1, Min(30, Len(popular_movie_ids)))
           ELSE cand \in TopSimilarOfSeed

\* C11 witness: the seed has no catalog row although the catalog is not empty, the
\* popular list is longer than 30, and its first 30 entries became the candidates.
C11_Witness ==
    /\ Served
    /\ resp.status = 200
    /\ movies_df /= <<>>
    /\ ~InCatalog(resp.seed_movie_id)
    /\ Len(popular_movie_ids) > 30
    /\ Len(cand) = 30
    /\ cand[30] = popular_movie_ids[30]

\* the candidates left by the rated filter, and those of them with a catalog row
FilteredCand == Unrated(cand, GetRatingsForUser(call.user_id))
ListedCand   == SelectSeq(FilteredCand, InCatalog)

\* the score of the loaded model for a candidate, as predict returns it
ModelScore(mid) ==
    IF svd_model /= NoModel THEN Predict(svd_model, call.user_id, mid) ELSE FallbackScore

\* position of row p in the descending stable order of `keys`: one more than the
\* number of rows that go before it
RankOf(keys, p) ==
    1 + Cardinality({q \in 1..Len(keys) :
                       keys[q] > keys[p] \/ (keys[q] = keys[p] /\ q < p)})

\* `recs` is the first 10 of `items` in descending stable order of `keys`
IsTopTenOf(recs, items, keys) ==
    /\ Len(recs) = Min(10, Len(items))
    /\ \A p \in 1..Len(items) :
          RankOf(keys, p) <= 10 => recs[RankOf(keys, p)].movieId = items[p]

\* C12 as stated: the returned list is the first 10 of the filtered candidates in
\* descending order of the model's predicted score, equal scores in candidate order,
\* and no movie comes after one of strictly lower predicted score.
C12_RankedByModelScore ==
    (Served /\ resp.status = 200)
        => /\ IsTopTenOf(resp.recommendations, FilteredCand,
                         [p \in 1..Len(FilteredCand) |-> ModelScore(FilteredCand[p])])
           /\ \A j, k \in 1..Len(resp.recommendations) :
                 j < k => ModelScore(resp.recommendations[j].movieId)
                             >= ModelScore(resp.recommendations[k].movieId)

\* C12 amended: the returned list is the first 10 of the filtered candidates that
\* have a catalog row, in descending order of the predicted score rounded to two
\* decimals (the score reported), equal rounded scores in candidate order, and no
\* movie comes after one of strictly lower rounded score.
C12_RankedByReportedScore ==
    (Served /\ resp.status = 200)
        => /\ IsTopTenOf(resp.recommendations, ListedCand,
                         [p \in 1..Len(ListedCand) |-> Round2(ModelScore(ListedCand[p]))])
           /\ \A j \in 1..Len(resp.recommendations) :
                 resp.recommendations[j].predicted_rating
                    = Round2(ModelScore(resp.recommendations[j].movieId))
           /\ \A j, k \in 1..Len(resp.recommendations) :
                 j < k => resp.recommendations[j].predicted_rating
                             >= resp.recommendations[k].predicted_rating

\* C12 witness: more than 10 candidates were ranked by a loaded model, the ranking
\* moved a later candidate before an earlier one, and two returned movies of equal
\* reported score exist.
C12_Witness ==
    /\ Served
    /\ resp.status = 200
    /\ svd_model /= NoModel
    /\ Len(ListedCand) > 10
    /\ Len(resp.recommendations) = 10
    /\ \E p, q \in 1..Len(ListedCand) :
          /\ p < q
          /\ Round2(ModelScore(ListedCand[p])) < Round2(ModelScore(ListedCand[q]))
    /\ \E j, k \in 1..Len(resp.recommendations) :
          /\ j < k
          /\ resp.recommendations[j].predicted_rating
                = resp.recommendations[k].predicted_rating

-----------------------------------------------------------------------------
(* Claims about the order of the similar movies *)

\* the catalog rows other than the row of the query movie, in catalog order
OtherRows ==
    SelectSeq([r \in 1..Len(movies_df) |-> r], LAMBDA r : r /= FirstIdx(call.movie_id))

\* the similarity of each of those rows to the query movie
OtherScores ==
    LET sim_scores == SimScores(FirstIdx(call.movie_id))
    IN [p \in 1..Len(OtherRows) |-> sim_scores[OtherRows[p]]]

\* C13: _get_content_similar_movies(X, n) returns the n catalog movies other than X
\* of highest similarity to X in descending order of similarity, movies of equal
\* similarity in catalog row order (the earlier row first).
C13_TopSimilarStableOrder ==
    (call.op = "similar" /\ resp.op = "similar" /\ InCatalog(call.movie_id))
        => /\ Len(resp.result) = Min(call.top_n, Len(OtherRows))
           /\ \A p \in 1..Len(OtherRows) :
                 RankOf(OtherScores, p) <= call.top_n
                    => resp.result[RankOf(OtherScores, p)] = movies_df[OtherRows[p]].movieId

-----------------------------------------------------------------------------
(* Claims about the SGD step *)

\* the update formulas applied to the values of before the step, all at once:
\*   e = r - pred,  b_u += lr*(e - reg*b_u),  b_i += lr*(e - reg*b_i),
\*   p_u += lr*(e*q_i - reg*p_u),  q_i += lr*(e*p_u - reg*q_i)
SimultaneousUpdate(m, u, i, r) ==
    LET e   == r - Linear(m, u, i)
        b_u == m.user_bias[1][u]
        b_i == m.item_bias[1][i]
        p_u == m.user_factors[1][u]
        q_i == m.item_factors[1][i]
    IN [m EXCEPT
          !.user_bias    = Arr([m.user_bias[1] EXCEPT ![u] = b_u + Mul(m.lr, e - Mul(m.reg, b_u))]),
          !.item_bias    = Arr([m.item_bias[1] EXCEPT ![i] = b_i + Mul(m.lr, e - Mul(m.reg, b_i))]),
          !.user_factors = Arr([m.user_factors[1] EXCEPT ![u] =
              [k \in 1..Len(p_u) |-> p_u[k] + Mul(m.lr, Mul(e, q_i[k]) - Mul(m.reg, p_u[k]))]]),
          !.item_factors = Arr([m.item_factors[1] EXCEPT ![i] =
              [k \in 1..Len(q_i) |-> q_i[k] + Mul(m.lr, Mul(e, p_u[k]) - Mul(m.reg, q_i[k]))]])]

\* u, i, r of the step that `fit` makes for row idx of the training data
TripleOf(m, idx) ==
    [u |-> m.user_map[train[idx].user_id], i |-> m.item_map[train[idx].item_id],
     r |-> train[idx].rating]

\* C14: every SGD step of fit for a triple (u, i, r) leaves the model that the update
\* formulas give when all of them read the values of before the step: one error e,
\* the new user_factors[u] from the old item_factors[i] and the new item_factors[i]
\* from the old user_factors[u].
C14_StepUsesOldValues ==
    [][(fit_pc = "epoch_loop" /\ pending' /= pending /\ pending' \subseteq pending)
          => \E idx \in pending \ pending' :
                LET x == TripleOf(model, idx)
                IN model' = SimultaneousUpdate(model, x.u, x.i, x.r)]_vars

\* C14 witness: the first step of a fit has run on a triple for which updating
\* item_factors[i] from the new user_factors[u] would have given another model, and
\* the model is the one of the simultaneous update.
C14_Witness ==
    /\ fit_pc = "epoch_loop"
    /\ epoch = 0
    /\ \E idx \in (1..Len(train)) \ pending :
          /\ pending = (1..Len(train)) \ {idx}
          /\ \E m \in {FitInit(NewModel(model.lr), train)} :
                LET x == TripleOf(m, idx)
                IN /\ model = SimultaneousUpdate(m, x.u, x.i, x.r)
                   /\ model /= SgdInPlace(m, x.u, x.i, x.r)

-----------------------------------------------------------------------------
(* Claims about concurrent registration *)

\* C15: once every register request has ended, no two stored users share a username,
\* no two share an id, and the user of every successful request is in the store.
C15_RegisterKeepsUsersUnique ==
    (\A t \in DOMAIN pc : pc[t] = "done" /\ req[t] = <<>>)
        => /\ \A j, k \in 1..Len(users_json) :
                 j /= k => /\ users_json[j].username /= users_json[k].username
                           /\ users_json[j].id /= users_json[k].id
           /\ registered \subseteq Range(users_json)

====
